---- MODULE Spec2Model ----
(***************************************************************************)
(* A model of stdio_mgr.types: the tuple of three stream-like objects      *)
(* (StdioTuple, TextIOTuple), its bulk operations (_map, suppress_map,     *)
(* _all, suppress_all, close), the member-closing context manager          *)
(* (_MultiCloseContextManager) and the context manager that swaps          *)
(* sys.stdin/sys.stdout/sys.stderr (ReplaceSysIoContextManager).           *)
(*                                                                         *)
(* The specifications of the module:                                       *)
(*   SpecTuple    construction of tuples and the bulk operations;          *)
(*   SpecMulti    one _MultiCloseContextManager, or one                    *)
(*                _OutStreamsCloseContextManager, over every kind of       *)
(*                member;                                                  *)
(*   Spec         swaps of the global handles, nested and sequential,      *)
(*                exited in any order;                                     *)
(*   SpecReentry  swaps over io.StringIO members, also entered again while *)
(*                they are active;                                         *)
(*   SpecTee      the managed stdin, whose reads are teed to the managed   *)
(*                stdout, and its append.                                  *)
(***************************************************************************)
EXTENDS Integers, Sequences, FiniteSets, TLC

VARIABLES
    items,      \* SpecTuple: the iterable handed to a constructor (kinds)
    inst,       \* SpecTuple: the constructed tuple, or NoInst
    out,        \* SpecTuple: what the last call did and returned
    sys,        \* Spec: <<sys.stdin, sys.stdout, sys.stderr>>
    tri,        \* Spec: per swap, the kinds of its three members
    depth,      \* Spec: per swap, entries not yet matched by an exit
    prior,      \* Spec: per swap, self._prior_streams (Unset before __enter__)
    closeFiles, \* Spec: per swap, the members held by self._close_files
    before,     \* Spec: per swap, the globals seen when it was last entered
    stack,      \* Spec: the swaps entered and not yet exited, oldest first
    usage,      \* Spec: how swaps were used so far: "flat" (never one inside
                \* another), "nested" (properly nested) or "broken"
    cur,        \* Spec: the swap entered by the last swap operation, or 0 when
                \* the last swap operation was an exit
    newest,     \* Spec: the swap entered last, or 0 once that swap has exited
    wrote,      \* Spec: the last write of the running body
    last        \* Spec: the last __enter__/__exit__ call and what it did

tupleVars == <<items, inst, out>>
swapVars == <<sys, tri, depth, prior, closeFiles, before, stack, usage,
              cur, newest, wrote, last>>
vars == <<tupleVars, swapVars>>

(***************************************************************************)
(* Bounds.                                                                 *)
(***************************************************************************)
MaxLen == 4        \* longest iterable handed to a constructor
MaxSwaps == 3      \* swap instances alive at a time
MaxDepth == 2      \* entries of one swap instance not yet exited

(***************************************************************************)
(* Python values and member objects.                                       *)
(*                                                                         *)
(* A member is described by its kind:                                      *)
(*   StringIO   an io.StringIO: a TextIOBase, close() defined on the type  *)
(*              only (not in the instance __dict__), returns None;         *)
(*   str        a str such as "": no __dict__, no close, no __exit__;      *)
(*   FakeTrue   a stand-in whose instance __dict__ holds close, which      *)
(*              returns True;                                              *)
(*   FakeNone   the same, close returns None;                              *)
(*   FakeRaise  the same, close raises OSError;                            *)
(*   CmNone     a context manager whose __enter__ returns None;            *)
(*   CmExitRaises   a context manager whose __exit__ raises OSError;       *)
(*   CmEnterRaises  a context manager whose __enter__ raises ValueError (a  *)
(*              stream that is closed already).                            *)
(* The Fake kinds have no __enter__/__exit__; the Cm kinds have close on   *)
(* the type, returning None.                                               *)
(***************************************************************************)
TupleKinds == {"StringIO", "str", "FakeTrue", "FakeNone", "FakeRaise"}
CmKinds == {"StringIO", "str", "CmNone", "CmExitRaises", "CmEnterRaises"}
Kinds == TupleKinds \cup CmKinds

Ret(v)   == [t |-> "ret", v |-> v]
Raise(e) == [t |-> "raise", v |-> e]

\* bool(v) of the values the model uses.
Truthy(v) == v \in {"True", "self"}

\* isinstance(item, TextIOBase)
IsTextIOBase(k) == k = "StringIO"

\* item.close(), by ordinary attribute lookup.
CallClose(k) ==
    CASE k = "StringIO"  -> Ret("None")
      [] k = "str"       -> Raise("AttributeError")
      [] k = "FakeTrue"  -> Ret("True")
      [] k = "FakeNone"  -> Ret("None")
      [] k = "FakeRaise" -> Raise("OSError")
      [] OTHER           -> Ret("None")

\* type(item).__enter__(item), reached through ExitStack.enter_context, which
\* first looks up __enter__ and __exit__ on the type (AttributeError when one
\* is missing, on the interpreters the package supports).
EnterOutcome(k) ==
    CASE k \in {"StringIO", "CmExitRaises"} -> Ret("self")
      [] k = "CmNone"                       -> Ret("None")
      [] k = "CmEnterRaises"                -> Raise("ValueError")
      [] OTHER                              -> Raise("AttributeError")

\* type(item).__exit__(item, None, None, None)
ExitOutcome(k) ==
    IF k = "CmExitRaises" THEN Raise("OSError") ELSE Ret("None")

\* item.__dict__[method](item) with method = "close": the lookup goes to the
\* instance dictionary only.
DictCall(k) ==
    CASE k = "str"      -> Raise("AttributeError")     \* no __dict__
      [] k \in {"FakeTrue", "FakeNone", "FakeRaise"} -> CallClose(k)
      [] OTHER          -> Raise("KeyError")           \* close is on the type

\* The operations handed to _map / suppress_map:
\*   "close"     the method name (a str);
\*   "f_close"   a function calling item.close();
\*   "is_text"   lambda item: isinstance(item, TextIOBase);
\*   "enter_context"  stack.enter_context of an ExitStack.
Ops == {"close", "f_close", "is_text"}

IsStr(op) == op = "close"

\* op(item) for an op that is a function.
Apply(op, k) ==
    CASE op = "f_close" -> CallClose(k)
      [] op = "is_text" -> Ret(IF IsTextIOBase(k) THEN "True" ELSE "False")
      [] op = "enter_context" -> EnterOutcome(k)

Excs == {"AttributeError", "KeyError", "OSError"}

(***************************************************************************)
(* Generators.  A generator is modelled by its step: what resuming it at   *)
(* member i does (yield a value, pass on to the next member, or raise).    *)
(* A consumer drives the steps in member order.                            *)
(***************************************************************************)
Yield(v) == [t |-> "yield", v |-> v]
Skip     == [t |-> "skip", v |-> "None"]

FromOutcome(o) == IF o.t = "ret" THEN Yield(o.v) ELSE o

\* StdioTuple._map_method(method)
_map_method(self, method, i) == FromOutcome(DictCall(self[i]))

\* StdioTuple._map(op)
_map(self, op, i) ==
    IF IsStr(op) THEN _map_method(self, op, i)
    ELSE FromOutcome(Apply(op, self[i]))

\* StdioTuple.suppress_map(ex, op)
suppress_mapMutantAll(self, ex, op, i) ==
    LET o == IF IsStr(op) THEN DictCall(self[i]) ELSE Apply(op, self[i])
    IN  IF o.t = "raise" THEN Skip ELSE FromOutcome(o)

suppress_map(self, ex, op, i) ==
    LET o == IF IsStr(op) THEN DictCall(self[i]) ELSE Apply(op, self[i])
    IN  IF o.t = "raise" /\ o.v = ex THEN Skip ELSE FromOutcome(o)

\* The record a consumer leaves: the members invoked (in order), the values
\* received (with the member each came from), the exception that reached the
\* consumer ("none" when there was none) and the consumer's return value.
Consumed(calls, yields, exc, ret) ==
    [calls |-> calls, yields |-> yields, exc |-> exc, ret |-> ret]

\* list(gen) / a for loop over gen: takes every value until the generator is
\* exhausted or raises.
RECURSIVE Drain(_, _, _, _)
Drain(steps, i, calls, yields) ==
    IF i > Len(steps) THEN Consumed(calls, yields, "none", "None")
    ELSE LET s == steps[i]
             c == Append(calls, i)
         IN  CASE s.t = "yield" ->
                      Drain(steps, i + 1, c, Append(yields, <<i, s.v>>))
               [] s.t = "skip"  -> Drain(steps, i + 1, c, yields)
               [] s.t = "raise" -> Consumed(c, yields, s.v, "None")

\* all(gen): stops at the first value that is not truthy.
RECURSIVE All(_, _, _, _)
All(steps, i, calls, yields) ==
    IF i > Len(steps) THEN Consumed(calls, yields, "none", "True")
    ELSE LET s == steps[i]
             c == Append(calls, i)
         IN  CASE s.t = "yield" ->
                      IF Truthy(s.v)
                      THEN All(steps, i + 1, c, Append(yields, <<i, s.v>>))
                      ELSE Consumed(c, Append(yields, <<i, s.v>>),
                                    "none", "False")
               [] s.t = "skip"  -> All(steps, i + 1, c, yields)
               [] s.t = "raise" -> Consumed(c, yields, s.v, "None")

Steps_map(self, op) == [i \in 1..Len(self) |-> _map(self, op, i)]
Steps_suppress_map(self, ex, op) ==
    [i \in 1..Len(self) |-> suppress_map(self, ex, op, i)]

\* StdioTuple._all(op)
_all(self, op) == All(Steps_map(self, op), 1, <<>>, <<>>)

\* StdioTuple.suppress_all(ex, op)
suppress_all(self, ex, op) == All(Steps_suppress_map(self, ex, op), 1, <<>>, <<>>)

\* StdioTuple.close()
close(self) == _all(self, "close")

(***************************************************************************)
(* Construction.                                                           *)
(***************************************************************************)
\* An instance: its class, its members, and what _MultiCloseContextManager
\* keeps on it (phase: "new", "active" after __enter__, "done" after __exit__;
\* files: the members held by self._close_files).
NoInst == [cls |-> "none", members |-> <<>>, phase |-> "new", files |-> <<>>]

Built(cls, members) ==
    [cls |-> cls, members |-> members, phase |-> "new", files |-> <<>>]

New(exc, msg, obj) == [exc |-> exc, msg |-> msg, obj |-> obj]

\* StdioTuple.__new__(cls, iterable)
StdioTuple_new(cls, iterable) ==
    IF Len(iterable) # 3
    THEN New("AssertionError", "iterable must be three items", NoInst)
    ELSE New("none", "", Built(cls, iterable))

\* TextIOTuple.__new__(cls, iterable): super(StdioTuple, cls).__new__ is the
\* __new__ of the class after StdioTuple in the MRO, tuple.__new__.
TextIOTuple_new(iterable) ==
    LET self == iterable
        chk  == _all(self, "is_text")
    IN  IF chk.ret # "True"
        THEN New("AssertionError", "iterable must contain only TextIOBase", NoInst)
        ELSE New("none", "", Built("TextIOTuple", self))

(***************************************************************************)
(* contextlib.ExitStack, as _MultiCloseContextManager uses it.             *)
(***************************************************************************)
Ev(what, k) == <<what, k>>

\* The callbacks of an ExitStack run last-in-first-out; each is the __exit__
\* of an entered member.  A callback that raises replaces the pending
\* exception, one that returns a true value clears it; every callback runs.
RECURSIVE RunExits(_, _, _, _, _)
RunExits(kinds, entered, j, pending, events) ==
    IF j = 0 THEN [exc |-> pending, events |-> events]
    ELSE LET o == ExitOutcome(kinds[entered[j]])
             p == IF o.t = "raise" THEN o.v
                  ELSE IF Truthy(o.v) THEN "none" ELSE pending
         IN  RunExits(kinds, entered, j - 1, p,
                      Append(events, Ev("exit", entered[j])))

\* _MultiCloseContextManager.__enter__, up to its call of super().__enter__():
\* the members entered, the exception that leaves the with block (when a
\* member's __enter__ raises anything but AttributeError the ExitStack
\* unwinds the members entered so far) and the events in order.
MultiClose_enter(kinds) ==
    LET r       == suppress_all(kinds, "AttributeError", "enter_context")
        entered == [j \in 1..Len(r.yields) |-> r.yields[j][1]]
        tried   == [j \in 1..Len(r.calls) |->
                       Ev(IF \E y \in 1..Len(entered) : entered[y] = r.calls[j]
                          THEN "enter" ELSE "noenter", r.calls[j])]
    IN  IF r.exc # "none"
        THEN LET u == RunExits(kinds, entered, Len(entered), r.exc, <<>>)
             IN  [exc |-> u.exc, set |-> FALSE, files |-> <<>>,
                  events |-> tried \o u.events]
        ELSE [exc |-> "none", set |-> TRUE, files |-> entered, events |-> tried]

\* _MultiCloseContextManager.close(): self._close_files()
MultiClose_close(kinds, files) ==
    RunExits(kinds, files, Len(files), "none", <<Ev("close_files", 0)>>)

\* _MultiCloseContextManager.__exit__: close, then AbstractContextManager's
\* __exit__, which returns None.
MultiClose_exit(kinds, files) ==
    LET c == MultiClose_close(kinds, files)
    IN  [exc |-> c.exc, ret |-> "None", events |-> c.events]

\* _OutStreamsCloseContextManager.__enter__, its own ExitStack: the members
\* in roles are entered one after the other, each under
\* suppress(AttributeError); another exception unwinds the stack.
RECURSIVE OutStreams_own(_, _, _, _, _)
OutStreams_own(kinds, roles, j, entered, events) ==
    IF j > Len(roles) THEN [exc |-> "none", entered |-> entered, events |-> events]
    ELSE LET r == roles[j]
             o == EnterOutcome(kinds[r])
         IN  IF o.t = "ret"
             THEN OutStreams_own(kinds, roles, j + 1, Append(entered, r),
                                 Append(events, Ev("enter", r)))
             ELSE IF o.v = "AttributeError"
             THEN OutStreams_own(kinds, roles, j + 1, entered,
                                 Append(events, Ev("noenter", r)))
             ELSE LET u == RunExits(kinds, entered, Len(entered), o.v,
                                    Append(events, Ev("noenter", r)))
                  IN  [exc |-> u.exc, entered |-> <<>>, events |-> u.events]

\* _OutStreamsCloseContextManager.__enter__: stdout and stderr are entered
\* and kept in self._close_files; then super().__enter__() runs, which is
\* _MultiCloseContextManager.__enter__ and assigns self._close_files anew.
OutStreams_enter(kinds) ==
    LET own == OutStreams_own(kinds, <<2, 3>>, 1, <<>>, <<>>)
    IN  IF own.exc # "none"
        THEN [exc |-> own.exc, set |-> FALSE, files |-> <<>>,
              events |-> own.events]
        ELSE LET m == MultiClose_enter(kinds)
             IN  [exc |-> m.exc, set |-> TRUE,
                  files |-> IF m.set THEN m.files ELSE own.entered,
                  events |-> own.events \o m.events]

(***************************************************************************)
(* ReplaceSysIoContextManager over _MultiCloseContextManager.              *)
(***************************************************************************)
Swaps == 1..MaxSwaps

\* The stream objects: <<0, r>> is the handle the process started with in
\* role r (1 stdin, 2 stdout, 3 stderr), <<i, r>> member r of swap i.
Orig == <<<<0, 1>>, <<0, 2>>, <<0, 3>>>>
Members(i) == <<<<i, 1>>, <<i, 2>>, <<i, 3>>>>
Unset == <<>>

\* The triples a swap is constructed from.
Triples ==
    { <<"StringIO", "StringIO", "StringIO">>,
      <<"str", "str", "str">>,
      <<"StringIO", "CmExitRaises", "StringIO">>,
      <<"StringIO", "StringIO", "CmEnterRaises">>,
      <<"CmNone", "StringIO", "StringIO">>,
      <<"CmExitRaises", "StringIO", "CmEnterRaises">> }

\* The class after ReplaceSysIoContextManager in the method resolution order
\* of the manager: the swap delegates the closing of its members to it.
SuperOfReplace == "_MultiCloseContextManager"

\* self._prior_streams = (sys.stdin, sys.stdout, sys.stderr)
CaptureMutantDunder(globals) == <<Orig[1], Orig[2], Orig[3]>>

Capture(globals) == <<globals[1], globals[2], globals[3]>>

\* (sys.stdin, sys.stdout, sys.stderr) = self
InstallMutantRoles(i) == <<Members(i)[1], Members(i)[3], Members(i)[2]>>

Install(i) == <<Members(i)[1], Members(i)[2], Members(i)[3]>>

\* (sys.stdin, sys.stdout, sys.stderr) = self._prior_streams
RestoreMutantRoles(saved) == <<saved[1], saved[3], saved[2]>>

Restore(saved) == <<saved[1], saved[2], saved[3]>>

Assigned(what) == <<Ev(what, 1), Ev(what, 2), Ev(what, 3)>>

\* ReplaceSysIoContextManager.__enter__
ReplaceSysIo_enterMutantOrig(i, globals, kinds) ==
    LET m == MultiClose_enter(kinds)
    IN  IF m.exc # "none"
        THEN [exc |-> m.exc, ret |-> "None", sys |-> globals, prior |-> Orig,
              set |-> FALSE, files |-> <<>>,
              trace |-> <<Ev("capture", 0)>> \o m.events]
        ELSE [exc |-> "none", ret |-> "self", sys |-> Install(i), prior |-> Orig,
              set |-> m.set, files |-> m.files,
              trace |-> <<Ev("capture", 0)>> \o m.events \o Assigned("install")]

ReplaceSysIo_enter(i, globals, kinds) ==
    LET saved == Capture(globals)
        m     == IF SuperOfReplace = "_MultiCloseContextManager"
                 THEN MultiClose_enter(kinds)
                 ELSE [exc |-> "none", set |-> FALSE, files |-> <<>>, events |-> <<>>]
    IN  IF m.exc # "none"
        THEN [exc |-> m.exc, ret |-> "None", sys |-> globals, prior |-> saved,
              set |-> FALSE, files |-> <<>>,
              trace |-> <<Ev("capture", 0)>> \o m.events]
        ELSE [exc |-> "none", ret |-> "self", sys |-> Install(i), prior |-> saved,
              set |-> m.set, files |-> m.files,
              trace |-> <<Ev("capture", 0)>> \o m.events \o Assigned("install")]

\* ReplaceSysIoContextManager.__exit__
ReplaceSysIo_exitMutantCloseFirst(saved, kinds, files) ==
    LET m == MultiClose_exit(kinds, files)
    IN  [exc |-> m.exc, ret |-> m.ret, sys |-> Restore(saved),
         trace |-> m.events \o Assigned("restore")]

ReplaceSysIo_exit(saved, kinds, files) ==
    LET restored == Restore(saved)
        m        == IF SuperOfReplace = "_MultiCloseContextManager"
                    THEN MultiClose_exit(kinds, files)
                    ELSE [exc |-> "none", ret |-> "None", events |-> <<>>]
    IN  [exc |-> m.exc, ret |-> m.ret, sys |-> restored,
         trace |-> Assigned("restore") \o m.events]

\* What the caller of a with statement sees once __exit__ has run for a body
\* that ended with excIn ("none": the body returned).
Observed(excIn, x) ==
    IF x.exc # "none" THEN x.exc
    ELSE IF Truthy(x.ret) THEN "none" ELSE excIn

NoOp == [op |-> "none", swap |-> 0, kinds |-> <<>>, excIn |-> "none",
         exc |-> "none", ret |-> "None", observed |-> "none", direct |-> FALSE,
         before |-> <<>>, files |-> <<>>, trace |-> <<>>]

NoWrite == [role |-> 0, stream |-> <<0, 0>>, during |-> 0]

SwapQuiet ==
    /\ sys = Orig
    /\ tri = <<>>
    /\ depth = <<>>
    /\ prior = <<>>
    /\ closeFiles = <<>>
    /\ before = <<>>
    /\ stack = <<>>
    /\ usage = "flat"
    /\ cur = 0
    /\ newest = 0
    /\ wrote = NoWrite
    /\ last = NoOp

TupleQuiet ==
    /\ items = <<>>
    /\ inst = <<>>
    /\ out = <<>>

\* No swap exists yet; the globals are the handles the process started with.
Init ==
    /\ TupleQuiet
    /\ sys = Orig
    /\ tri = [i \in Swaps |-> Unset]
    /\ depth = [i \in Swaps |-> 0]
    /\ prior = [i \in Swaps |-> Unset]
    /\ closeFiles = [i \in Swaps |-> <<>>]
    /\ before = [i \in Swaps |-> Unset]
    /\ stack = <<>>
    /\ usage = "flat"
    /\ cur = 0
    /\ newest = 0
    /\ wrote = NoWrite
    /\ last = NoOp

Top == IF stack = <<>> THEN 0 ELSE stack[Len(stack)]

Without(q, i) == SelectSeq(q, LAMBDA x : x # i)

\* A stream of swap i is still a global handle or in another swap's snapshot.
Referenced(i) ==
    \/ \E r \in 1..3 : sys[r][1] = i
    \/ \E j \in Swaps \ {i} : prior[j] # Unset /\ \E r \in 1..3 : prior[j][r][1] = i

\* swap.__enter__() has run on swap i, whose members are kinds.
Entered(i, kinds, e) ==
    /\ sys' = e.sys
    /\ last' = [op |-> "enter", swap |-> i, kinds |-> kinds, excIn |-> "none",
                exc |-> e.exc, ret |-> e.ret, observed |-> e.exc,
                direct |-> FALSE, before |-> sys, files |-> e.files,
                trace |-> e.trace]
    /\ IF e.exc = "none"
       THEN /\ depth' = [depth EXCEPT ![i] = @ + 1]
            /\ tri' = [tri EXCEPT ![i] = kinds]
            /\ prior' = [prior EXCEPT ![i] = e.prior]
            /\ before' = [before EXCEPT ![i] = sys]
            /\ closeFiles' = [closeFiles EXCEPT ![i] = e.files]
            /\ stack' = IF depth[i] = 0 THEN Append(stack, i) ELSE stack
            /\ usage' = IF depth[i] > 0 \/ usage = "broken" THEN "broken"
                        ELSE IF stack # <<>> THEN "nested" ELSE usage
            /\ cur' = i
            /\ newest' = i
            /\ wrote' = NoWrite
       ELSE /\ prior' = IF depth[i] > 0 THEN [prior EXCEPT ![i] = e.prior] ELSE prior
            /\ before' = IF depth[i] > 0 THEN [before EXCEPT ![i] = sys] ELSE before
            /\ UNCHANGED <<depth, tri, closeFiles, stack, usage, cur, newest, wrote>>
    /\ UNCHANGED tupleVars

\* with ReplaceSysIoContextManager(streams): a fresh swap is constructed from
\* three streams and entered.  A swap whose __enter__ raises is dropped.
\* The new swap is named by the first number that names no live object.
EnterNew(i, kinds) ==
    /\ depth[i] = 0
    /\ ~Referenced(i)
    /\ ~\E j \in 1..(i - 1) : depth[j] = 0 /\ ~Referenced(j)
    /\ Entered(i, kinds, ReplaceSysIo_enter(i, sys, kinds))

\* A swap that is active is entered again.
Reenter(i) ==
    /\ depth[i] > 0
    /\ depth[i] < MaxDepth
    /\ Entered(i, tri[i], ReplaceSysIo_enter(i, sys, tri[i]))

\* The body of swap i ends (returning, or raising E) and swap.__exit__ runs.
\* A swap with no entry left is never used again and is dropped.
Exit(i, excIn) ==
    /\ depth[i] > 0
    /\ LET x == ReplaceSysIo_exit(prior[i], tri[i], closeFiles[i])
       IN  /\ sys' = x.sys
           /\ last' = [op |-> "exit", swap |-> i, kinds |-> tri[i], excIn |-> excIn,
                       exc |-> x.exc, ret |-> x.ret,
                       observed |-> Observed(excIn, x),
                       direct |-> (cur = i), before |-> before[i],
                       files |-> closeFiles[i], trace |-> x.trace]
    /\ depth' = [depth EXCEPT ![i] = @ - 1]
    /\ stack' = IF depth[i] = 1 THEN Without(stack, i) ELSE stack
    /\ usage' = IF Top = i /\ usage # "broken" THEN usage ELSE "broken"
    /\ cur' = 0
    /\ newest' = IF newest = i /\ depth[i] = 1 THEN 0 ELSE newest
    /\ wrote' = NoWrite
    /\ IF depth[i] = 1
       THEN /\ tri' = [tri EXCEPT ![i] = Unset]
            /\ prior' = [prior EXCEPT ![i] = Unset]
            /\ before' = [before EXCEPT ![i] = Unset]
            /\ closeFiles' = [closeFiles EXCEPT ![i] = <<>>]
       ELSE UNCHANGED <<tri, prior, before, closeFiles>>
    /\ UNCHANGED tupleVars

\* The running code writes to sys.stdout (role 2) or sys.stderr (role 3).
Write(role) ==
    /\ wrote' = [role |-> role, stream |-> sys[role], during |-> cur]
    /\ UNCHANGED <<sys, tri, depth, prior, closeFiles, before, stack,
                   usage, cur, newest, last, tupleVars>>

Next ==
    \/ \E i \in Swaps, kinds \in Triples : EnterNew(i, kinds)
    \/ \E i \in Swaps, excIn \in {"none", "E"} : Exit(i, excIn)
    \/ \E role \in {2, 3} : Write(role)

\* Swaps over three io.StringIO members that are entered, entered again
\* while they are active, and exited in any order.
MaxActive == 3

RECURSIVE SumTo(_, _)
SumTo(f, n) == IF n = 0 THEN 0 ELSE f[n] + SumTo(f, n - 1)

\* The entries not yet exited.
Active == SumTo(depth, MaxSwaps)

NextReentry ==
    \/ \E i \in Swaps :
          Active < MaxActive /\ EnterNew(i, <<"StringIO", "StringIO", "StringIO">>)
    \/ \E i \in Swaps : Active < MaxActive /\ Reenter(i)
    \/ \E i \in Swaps : Exit(i, "none")

SpecReentry == Init /\ [][NextReentry]_vars

Spec == Init /\ [][Next]_vars

(***************************************************************************)
(* SpecTuple: an iterable is drawn, a tuple is constructed from it and the *)
(* bulk operations are applied to the tuple.                               *)
(***************************************************************************)
RECURSIVE SeqsUpTo(_, _)
SeqsUpTo(S, n) ==
    IF n = 0 THEN {<<>>}
    ELSE LET shorter == SeqsUpTo(S, n - 1)
         IN  shorter \cup {Append(q, x) : q \in {r \in shorter : Len(r) = n - 1}, x \in S}

NoCall == [fn |-> "none", op |-> "none", ex |-> "none", new |-> New("none", "", NoInst),
           res |-> Consumed(<<>>, <<>>, "none", "None"),
           excIn |-> "none", observed |-> "none", events |-> <<>>]

Call(fn, op, ex, new, res) ==
    [fn |-> fn, op |-> op, ex |-> ex, new |-> new, res |-> res,
     excIn |-> "none", observed |-> res.exc, events |-> <<>>]

InitTuple ==
    /\ items \in SeqsUpTo(TupleKinds, MaxLen)
    /\ inst = NoInst
    /\ out = NoCall
    /\ SwapQuiet

\* StdioTuple(iterable)
NewStdioTuple ==
    /\ inst = NoInst
    /\ LET r == StdioTuple_new("StdioTuple", items)
       IN  /\ inst' = r.obj
           /\ out' = Call("StdioTuple", "none", "none", r, NoCall.res)
    /\ UNCHANGED <<items, swapVars>>

\* TextIOTuple(iterable)
NewTextIOTuple ==
    /\ inst = NoInst
    /\ LET r == TextIOTuple_new(items)
       IN  /\ inst' = r.obj
           /\ out' = Call("TextIOTuple", "none", "none", r, NoCall.res)
    /\ UNCHANGED <<items, swapVars>>

\* self.close()
DoClose ==
    /\ inst # NoInst
    /\ out' = Call("close", "close", "none", NoCall.new, close(inst.members))
    /\ UNCHANGED <<items, inst, swapVars>>

\* list(self._map(op))
DoMap ==
    /\ inst # NoInst
    /\ \E op \in Ops :
          out' = Call("_map", op, "none", NoCall.new,
                      Drain(Steps_map(inst.members, op), 1, <<>>, <<>>))
    /\ UNCHANGED <<items, inst, swapVars>>

\* list(self.suppress_map(ex, op))
DoSuppressMap ==
    /\ inst # NoInst
    /\ \E op \in Ops, ex \in Excs :
          out' = Call("suppress_map", op, ex, NoCall.new,
                      Drain(Steps_suppress_map(inst.members, ex, op), 1, <<>>, <<>>))
    /\ UNCHANGED <<items, inst, swapVars>>

\* self._all(op)
DoAll ==
    /\ inst # NoInst
    /\ \E op \in Ops :
          out' = Call("_all", op, "none", NoCall.new, _all(inst.members, op))
    /\ UNCHANGED <<items, inst, swapVars>>

\* self.suppress_all(ex, op)
DoSuppressAll ==
    /\ inst # NoInst
    /\ \E op \in Ops, ex \in Excs :
          out' = Call("suppress_all", op, ex, NoCall.new,
                      suppress_all(inst.members, ex, op))
    /\ UNCHANGED <<items, inst, swapVars>>

NextTuple ==
    \/ NewStdioTuple
    \/ NewTextIOTuple
    \/ DoClose
    \/ DoMap
    \/ DoSuppressMap
    \/ DoAll
    \/ DoSuppressAll

SpecTuple == InitTuple /\ [][NextTuple]_vars

(***************************************************************************)
(* Properties of the tuple operations (checked under SpecTuple).           *)
(***************************************************************************)

\* C7: close() issues a close attempt on all three members in every case,
\* also when the first member's close raises or returns a non-truthy value,
\* and returns whether all three closed successfully.
C7_CloseAttemptsAllThree ==
    (out.fn = "close" /\ Len(inst.members) = 3) =>
        /\ out.res.calls = <<1, 2, 3>>
        /\ (out.res.ret = "True") =
               (\A i \in 1..3 : /\ DictCall(inst.members[i]).t = "ret"
                                /\ Truthy(DictCall(inst.members[i]).v))

\* C8: TextIOTuple of three items, one of which is not a TextIOBase, fails
\* with ValueError("iterable must contain only TextIOBase") and produces no
\* instance; with three text streams construction succeeds.
C8_TypedConstructionValueError ==
    (out.fn = "TextIOTuple" /\ Len(items) = 3) =>
        IF \E i \in 1..3 : ~IsTextIOBase(items[i])
        THEN /\ out.new.exc = "ValueError"
             /\ out.new.msg = "iterable must contain only TextIOBase"
             /\ inst = NoInst
        ELSE /\ out.new.exc = "none"
             /\ inst = Built("TextIOTuple", items)

\* C9: every tuple instance that exists has exactly three members, and
\* construction from a sequence of any other length fails and produces no
\* instance, for TextIOTuple as well as for StdioTuple.
C9_LengthInvariant ==
    /\ inst # NoInst => Len(inst.members) = 3
    /\ (out.fn \in {"StdioTuple", "TextIOTuple"} /\ Len(items) # 3) =>
           (out.new.exc # "none" /\ inst = NoInst)

\* The outcome of the operation on member i, before any suppression.
MemberOutcome(op, i) ==
    IF IsStr(op) THEN DictCall(inst.members[i]) ELSE Apply(op, inst.members[i])

\* The first member that raises a kind other than ex (one past the end when
\* there is none).
FirstOther(op, ex) ==
    LET n == Len(inst.members)
        S == {i \in 1..n : MemberOutcome(op, i).t = "raise" /\ MemberOutcome(op, i).v # ex}
    IN  IF S = {} THEN n + 1 ELSE CHOOSE i \in S : \A j \in S : i <= j

\* C10: suppress_map(ex, op) yields exactly the results of the members that
\* did not raise ex, in member order, continuing past every member that
\* raised ex; an exception of another kind propagates to the consumer.
C10_SuppressMapYields ==
    out.fn = "suppress_map" =>
        LET n  == Len(inst.members)
            fo == FirstOther(out.op, out.ex)
            ys == out.res.yields
        IN  /\ {ys[j][1] : j \in 1..Len(ys)} =
                   {i \in 1..n : i < fo /\ MemberOutcome(out.op, i).t = "ret"}
            /\ \A j \in 1..Len(ys) : ys[j][2] = MemberOutcome(out.op, ys[j][1]).v
            /\ \A j \in 1..(Len(ys) - 1) : ys[j][1] < ys[j + 1][1]
            /\ out.res.exc = IF fo <= n THEN MemberOutcome(out.op, fo).v ELSE "none"
            /\ out.res.calls = [i \in 1..(IF fo <= n THEN fo ELSE n) |-> i]

\* A three-member tuple in which a member raised ex, a later member's result
\* was yielded, and a still later member raised another kind.
C10_Witness ==
    /\ out.fn = "suppress_map"
    /\ Len(inst.members) = 3
    /\ MemberOutcome(out.op, 1).t = "raise" /\ MemberOutcome(out.op, 1).v = out.ex
    /\ out.res.yields = <<<<2, MemberOutcome(out.op, 2).v>>>>
    /\ out.res.exc # "none"

(***************************************************************************)
(* SpecMulti: a _MultiCloseContextManager is constructed from three        *)
(* members of any kind, entered, and exited.                               *)
(***************************************************************************)
InitMulti ==
    /\ items \in [1..3 -> CmKinds]
    /\ inst = NoInst
    /\ out = NoCall
    /\ SwapQuiet

\* _MultiCloseContextManager(iterable)
NewMultiClose ==
    /\ inst = NoInst
    /\ LET r == StdioTuple_new("_MultiCloseContextManager", items)
       IN  /\ inst' = r.obj
           /\ out' = Call("_MultiCloseContextManager", "none", "none", r, NoCall.res)
    /\ UNCHANGED <<items, swapVars>>

\* _OutStreamsCloseContextManager(iterable)
NewOutStreams ==
    /\ inst = NoInst
    /\ LET r == StdioTuple_new("_OutStreamsCloseContextManager", items)
       IN  /\ inst' = r.obj
           /\ out' = Call("_OutStreamsCloseContextManager", "none", "none", r,
                          NoCall.res)
    /\ UNCHANGED <<items, swapVars>>

\* with inst: ... on an _OutStreamsCloseContextManager.
OutStreamsEnter ==
    /\ inst # NoInst
    /\ inst.cls = "_OutStreamsCloseContextManager"
    /\ inst.phase = "new"
    /\ LET m == OutStreams_enter(inst.members)
       IN  /\ inst' = IF m.exc = "none"
                      THEN [inst EXCEPT !.phase = "active", !.files = m.files]
                      ELSE [inst EXCEPT !.phase = "done", !.files = m.files]
           /\ out' = [fn |-> "__enter__", op |-> "enter_context",
                      ex |-> "AttributeError", new |-> NoCall.new,
                      res |-> Consumed(<<>>, <<>>, m.exc,
                                       IF m.exc = "none" THEN "self" ELSE "None"),
                      excIn |-> "none", observed |-> m.exc, events |-> m.events]
    /\ UNCHANGED <<items, swapVars>>

\* with inst: ... reaches inst.__enter__(); AbstractContextManager.__enter__
\* returns self.
MultiEnter ==
    /\ inst # NoInst
    /\ inst.cls = "_MultiCloseContextManager"
    /\ inst.phase = "new"
    /\ LET m == MultiClose_enter(inst.members)
       IN  /\ inst' = IF m.exc = "none"
                      THEN [inst EXCEPT !.phase = "active", !.files = m.files]
                      ELSE [inst EXCEPT !.phase = "done"]
           /\ out' = [fn |-> "__enter__", op |-> "enter_context",
                      ex |-> "AttributeError", new |-> NoCall.new,
                      res |-> Consumed(<<>>, <<>>, m.exc,
                                       IF m.exc = "none" THEN "self" ELSE "None"),
                      excIn |-> "none", observed |-> m.exc, events |-> m.events]
    /\ UNCHANGED <<items, swapVars>>

\* The body ends (returning, or raising E) and inst.__exit__ runs.
MultiExit(excIn) ==
    /\ inst.phase = "active"
    /\ LET x == MultiClose_exit(inst.members, inst.files)
       IN  /\ inst' = [inst EXCEPT !.phase = "done"]
           /\ out' = [fn |-> "__exit__", op |-> "none", ex |-> "none",
                      new |-> NoCall.new,
                      res |-> Consumed(<<>>, <<>>, x.exc, x.ret),
                      excIn |-> excIn, observed |-> Observed(excIn, x),
                      events |-> x.events]
    /\ UNCHANGED <<items, swapVars>>

NextMulti ==
    \/ NewMultiClose
    \/ NewOutStreams
    \/ MultiEnter
    \/ OutStreamsEnter
    \/ \E excIn \in {"none", "E"} : MultiExit(excIn)

SpecMulti == InitMulti /\ [][NextMulti]_vars

\* C16: for any operation and any combination of truthy and non-truthy
\* results of the three members, _all(op) and suppress_all(ex, op) invoke the
\* operation on every one of the three members exactly once, in stdin,
\* stdout, stderr order, and return true exactly when every produced result
\* is truthy.
C16_FullEvaluation ==
    (/\ out.fn \in {"_all", "suppress_all"}
     /\ Len(inst.members) = 3
     /\ \A i \in 1..3 : MemberOutcome(out.op, i).t = "ret") =>
        /\ out.res.calls = <<1, 2, 3>>
        /\ out.res.exc = "none"
        /\ (out.res.ret = "True") =
               (\A i \in 1..3 : Truthy(MemberOutcome(out.op, i).v))

\* C17: when every member supports close (on its type or on the instance),
\* consuming _map("close") produces the same three results, in the same
\* order, as consuming _map(f) with f the function that calls close on its
\* argument.
C17_ByNameEqualsByFunction ==
    (/\ out.fn = "_map"
     /\ out.op = "close"
     /\ Len(inst.members) = 3
     /\ \A i \in 1..3 : CallClose(inst.members[i]) # Raise("AttributeError")) =>
        out.res = Drain(Steps_map(inst.members, "f_close"), 1, <<>>, <<>>)

(***************************************************************************)
(* SpecTee: the manager's stdin is an in-memory text stream that tees what *)
(* is read from it to the managed stdout.  A text is a sequence of         *)
(* characters; a stream is its buffer and its position in the buffer.      *)
(***************************************************************************)
MaxIn == 3
MaxOut == 3
MaxText == 2

Chars == {"a", "\n"}

Stream(buf, pos) == [buf |-> buf, pos |-> pos]

Min(a, b) == IF a < b THEN a ELSE b

\* StringIO.read(size): the characters from the position on, at most size of
\* them when size >= 0; the position moves past them.
StringIO_read(s, size) ==
    LET n    == Len(s.buf) - s.pos
        k    == IF size < 0 THEN n ELSE Min(size, n)
        data == SubSeq(s.buf, s.pos + 1, s.pos + k)
    IN  [data |-> data, stream |-> Stream(s.buf, s.pos + k)]

\* StringIO.readline(): as read, up to and including the first newline.
StringIO_readline(s) ==
    LET rest == {j \in (s.pos + 1)..Len(s.buf) : s.buf[j] = "\n"}
        stop == IF rest = {} THEN Len(s.buf)
                ELSE CHOOSE j \in rest : \A m \in rest : j <= m
    IN  StringIO_read(s, stop - s.pos)

\* StringIO.write(text): text overwrites the buffer from the position on and
\* extends it; the position moves past what was written.
StringIO_write(s, text) ==
    LET end == s.pos + Len(text)
    IN  Stream(SubSeq(s.buf, 1, s.pos) \o text
                   \o SubSeq(s.buf, end + 1, Len(s.buf)),
               end)

\* The reads of the tee stream: "read" is read(), "read1" is read(1),
\* "readline" is readline().
Reads == {"read", "read1", "readline"}

Primary_read(s, how) ==
    CASE how = "read"     -> StringIO_read(s, -1)
      [] how = "read1"    -> StringIO_read(s, 1)
      [] how = "readline" -> StringIO_readline(s)

\* The tee stream's read: the primary stream reads, and what it returned is
\* written to the tee stream at its position.
Tee_readMutantNoTee(stdin, tee, how) ==
    LET r == Primary_read(stdin, how)
    IN  [data |-> r.data, stdin |-> r.stream, tee |-> tee]

Tee_read(stdin, tee, how) ==
    LET r == Primary_read(stdin, how)
    IN  [data |-> r.data, stdin |-> r.stream,
         tee |-> StringIO_write(tee, r.data)]

\* The tee stream's append: content is written at the end of the primary
\* stream's buffer and the position is put back where it was.
Tee_appendMutantStayAtEnd(stdin, content) ==
    StringIO_write(Stream(stdin.buf, Len(stdin.buf)), content)

Tee_append(stdin, content) ==
    LET pos == stdin.pos
        w   == StringIO_write(Stream(stdin.buf, Len(stdin.buf)), content)
    IN  Stream(w.buf, pos)

\* input(): a line is read from sys.stdin and returned without its trailing
\* newline; EOFError when nothing could be read.
Strip(line) ==
    IF line # <<>> /\ line[Len(line)] = "\n"
    THEN SubSeq(line, 1, Len(line) - 1) ELSE line

NoStreams == [stdin |-> Stream(<<>>, 0), stdout |-> Stream(<<>>, 0), open |-> FALSE]

\* The last call, and what has been written, read and put in so far.
TeeCall(fn, arg, ret, exc, pos, written, reads, given) ==
    [fn |-> fn, arg |-> arg, ret |-> ret, exc |-> exc, pos |-> pos,
     written |-> written, reads |-> reads, given |-> given]

InitTee ==
    /\ items \in SeqsUpTo(Chars, MaxIn)
    /\ inst = NoStreams
    /\ out = TeeCall("none", <<>>, <<>>, "none", 0, <<>>, <<>>, <<>>)
    /\ SwapQuiet

\* with stdio_mgr(in_str) as (i, o, e): stdin holds in_str, read from the start.
TeeOpen ==
    /\ ~inst.open
    /\ inst' = [stdin |-> Stream(items, 0), stdout |-> Stream(<<>>, 0),
                open |-> TRUE]
    /\ out' = TeeCall("open", items, <<>>, "none", 0, <<>>, <<>>, items)
    /\ UNCHANGED <<items, swapVars>>

\* The body writes text to the managed stdout.
TeePrint(text) ==
    /\ inst.open
    /\ Len(inst.stdout.buf) + Len(text) <= MaxOut
    /\ inst' = [inst EXCEPT !.stdout = StringIO_write(@, text)]
    /\ out' = TeeCall("write", text, <<>>, "none", inst.stdin.pos,
                      out.written \o text, out.reads, out.given)
    /\ UNCHANGED <<items, swapVars>>

\* The body reads from the managed stdin.
TeeRead(how) ==
    /\ inst.open
    /\ LET r == Tee_read(inst.stdin, inst.stdout, how)
       IN  /\ Len(inst.stdout.buf) + Len(r.data) <= MaxOut
           /\ inst' = [inst EXCEPT !.stdin = r.stdin, !.stdout = r.tee]
           /\ out' = TeeCall(how, <<>>, r.data, "none", inst.stdin.pos,
                             out.written \o r.data, out.reads \o r.data,
                             out.given)
    /\ UNCHANGED <<items, swapVars>>

\* The body calls input().
TeeInput ==
    /\ inst.open
    /\ LET r == Tee_read(inst.stdin, inst.stdout, "readline")
       IN  /\ Len(inst.stdout.buf) + Len(r.data) <= MaxOut
           /\ inst' = [inst EXCEPT !.stdin = r.stdin, !.stdout = r.tee]
           /\ out' = TeeCall("input", <<>>, Strip(r.data),
                             IF r.data = <<>> THEN "EOFError" ELSE "none",
                             inst.stdin.pos, out.written \o r.data,
                             out.reads \o r.data, out.given)
    /\ UNCHANGED <<items, swapVars>>

\* The body appends content to the managed stdin.
TeeAppend(content) ==
    /\ inst.open
    /\ Len(inst.stdin.buf) + Len(content) <= MaxIn
    /\ inst' = [inst EXCEPT !.stdin = Tee_append(@, content)]
    /\ out' = TeeCall("append", content, <<>>, "none", inst.stdin.pos,
                      out.written, out.reads, out.given \o content)
    /\ UNCHANGED <<items, swapVars>>

NextTee ==
    \/ TeeOpen
    \/ \E text \in SeqsUpTo(Chars, MaxText) \ {<<>>} : TeePrint(text)
    \/ \E how \in Reads : TeeRead(how)
    \/ TeeInput
    \/ \E content \in SeqsUpTo(Chars, MaxText) : TeeAppend(content)

SpecTee == InitTee /\ [][NextTee]_vars

(***************************************************************************)
(* Properties of _MultiCloseContextManager (checked under SpecMulti).      *)
(***************************************************************************)

\* The type of a member of this kind has __enter__ and __exit__.
HasContext(k) == k \in {"StringIO", "CmNone", "CmExitRaises", "CmEnterRaises"}

EventsOf(what, events) ==
    {events[j][2] : j \in {n \in 1..Len(events) : events[n][1] = what}}

\* C6: on acquisition every member that has __enter__/__exit__ is entered,
\* and a member lacking them is skipped, raising nothing and not keeping the
\* remaining members from being entered; on release exactly the members
\* that were entered are closed; with three members that all lack them,
\* enter and exit complete without raising.  (Stated for members whose own
\* __enter__ does not raise.)
C6_EntersEveryCloseableMember ==
    (/\ inst.cls = "_MultiCloseContextManager"
     /\ \A i \in 1..3 : items[i] # "CmEnterRaises") =>
        /\ out.fn = "__enter__" =>
              /\ out.res.exc = "none"
              /\ EventsOf("enter", out.events) = {i \in 1..3 : HasContext(items[i])}
        /\ out.fn = "__exit__" =>
              /\ EventsOf("exit", out.events) = {i \in 1..3 : HasContext(items[i])}
              /\ (\A i \in 1..3 : ~HasContext(items[i])) => out.res.exc = "none"

\* C15: a scope managed by _OutStreamsCloseContextManager enters and, on
\* exit, closes only the stdout and stderr members; the stdin member is never
\* entered by the manager and is not closed when the scope has exited.
C15_OutputOnlyClose ==
    inst.cls = "_OutStreamsCloseContextManager" =>
        /\ out.fn = "__enter__" => 1 \notin EventsOf("enter", out.events)
        /\ out.fn = "__exit__" =>
              /\ 1 \notin EventsOf("exit", out.events)
              /\ EventsOf("exit", out.events) =
                     {i \in {2, 3} : HasContext(items[i])}

(***************************************************************************)
(* Properties of the swap of the global handles (checked under Spec).      *)
(***************************************************************************)

\* The positions in a trace at which an event of this sort stands.
At(what, trace) == {n \in 1..Len(trace) : trace[n][1] = what}

\* C1: entering a swap and then exiting it leaves the three global handles
\* the very objects they were immediately before the entry, each in its
\* role; and after any number of sequential (never nested) enter/exit pairs
\* on fresh swaps the globals are the handles the process started with.
C1_RoundTrip ==
    /\ last.op = "exit" => \A r \in 1..3 : sys[r] = last.before[r]
    /\ (usage = "flat" /\ stack = <<>>) => sys = Orig

\* A swap entered while another swap's members were the globals has just
\* been exited, right after its entry.
C1_Witness ==
    /\ last.op = "exit"
    /\ last.direct
    /\ last.before # Orig
    /\ sys = last.before

\* C2: when the body raises E, exit restores the three handles captured at
\* entry and does not suppress E: it returns a value that is not true and
\* the caller observes E itself.
C2_BodyFailurePropagates ==
    (last.op = "exit" /\ last.excIn = "E") =>
        /\ sys = last.before
        /\ last.exc = "none"
        /\ ~Truthy(last.ret)
        /\ last.observed = "E"

C4_NestedLifo ==
    /\ usage \in {"flat", "nested"} =>
           sys = IF stack = <<>> THEN Orig ELSE Members(Top)
    /\ \A i \in Swaps : depth[i] > 0 => prior[i] = before[i]
    /\ last.op = "exit" => sys = last.before

\* Three swaps were nested and the innermost has exited: the globals are the
\* members of the second.
C4_Witness ==
    /\ usage = "nested"
    /\ last.op = "exit"
    /\ Len(stack) = 2
    /\ sys = Members(stack[2])
    /\ prior[stack[2]] = Members(stack[1])

\* C5 as stated: from the completion of a swap's enter to the start of its
\* exit, with no other swap entered in between, the three globals are the
\* swap's members 0, 1 and 2, enter returned the swap itself, and what the
\* body writes to sys.stdout or sys.stderr goes to the swap's member.
C5_InstalledUnlessEntered ==
    /\ \A i \in Swaps : newest = i =>
           /\ depth[i] > 0
           /\ \A r \in 1..3 : sys[r] = <<i, r>>
           /\ wrote.role # 0 => wrote.stream = <<i, wrote.role>>
    /\ (last.op = "enter" /\ last.exc = "none") => last.ret = "self"

\* C5, amended: from the completion of a swap's enter to the start of its
\* exit, with no other swap entered or exited in between, sys.stdin,
\* sys.stdout and sys.stderr are the swap's members 0, 1 and 2; enter
\* returns the swap itself; and what the body writes to sys.stdout or
\* sys.stderr goes to the swap's stdout or stderr member.
C5_MembersInstalled ==
    /\ \A i \in Swaps : cur = i =>
           /\ depth[i] > 0
           /\ \A r \in 1..3 : sys[r] = <<i, r>>
           /\ wrote.role # 0 => wrote.stream = <<i, wrote.role>>
    /\ (last.op = "enter" /\ last.exc = "none") =>
           /\ last.ret = "self"
           /\ cur = last.swap

\* The body of a swap nested in another has written to sys.stderr.
C5_Witness ==
    /\ cur # 0
    /\ Len(stack) >= 2
    /\ wrote.role = 3
    /\ wrote.stream = <<cur, 3>>

\* C14: entering a swap captures the three current globals, then enters the
\* members' own scopes, then installs the members as the globals, strictly
\* in that order and before the body runs; no member is installed as a
\* global before the snapshot is taken and every member that can be
\* entered (its type has __enter__ and __exit__) has been entered.
C14_AcquisitionOrdering ==
    /\ (last.op = "enter" /\ last.exc = "none") =>
           LET t == last.trace
               n == Len(t)
           IN  /\ n >= 4
               /\ t[1] = Ev("capture", 0)
               /\ \A r \in 1..3 : t[n - 3 + r] = Ev("install", r)
               /\ \A j \in 2..(n - 3) : t[j][1] \in {"enter", "noenter"}
               /\ EventsOf("enter", t) =
                      {r \in 1..3 : HasContext(last.kinds[r])}
               /\ cur = last.swap
               /\ prior[last.swap] = last.before
    /\ (last.op = "enter" /\ last.exc # "none") =>
           /\ At("install", last.trace) = {}
           /\ sys = last.before

\* C11: when the body raises E and, during release, closing one of the
\* entered members itself fails, release introduces no new error: the
\* caller still observes the original E, and the globals are restored.
C11_NoMaskingOnRelease ==
    (/\ last.op = "exit"
     /\ last.excIn = "E"
     /\ \E j \in 1..Len(last.files) :
            ExitOutcome(last.kinds[last.files[j]]).t = "raise") =>
        /\ last.exc = "none"
        /\ last.observed = "E"
        /\ sys = last.before

\* C18: if, while the members' scopes are entered during the swap's enter, a
\* member's __enter__ raises an error that is not suppressed, then that error
\* propagates out of enter, every member entered before it is closed again
\* (last entered first), and the three globals are unchanged: the members
\* are never installed.
C18_FailedAcquisitionClean ==
    \A r \in 1..3 :
        (/\ last.op = "enter"
         /\ \E n \in 1..Len(last.trace) : last.trace[n] = Ev("noenter", r)
         /\ EnterOutcome(last.kinds[r]).t = "raise"
         /\ EnterOutcome(last.kinds[r]).v # "AttributeError") =>
            LET t == last.trace
            IN  /\ last.exc = EnterOutcome(last.kinds[r]).v
                /\ t = <<Ev("capture", 0)>>
                         \o [j \in 1..(r - 1) |-> Ev("enter", j)]
                         \o <<Ev("noenter", r)>>
                         \o [j \in 1..(r - 1) |-> Ev("exit", r - j)]
                /\ sys = last.before
                /\ depth[last.swap] = 0

(***************************************************************************)
(* Properties of swaps entered again while active (checked under           *)
(* SpecReentry).                                                           *)
(***************************************************************************)

\* C19 as stated: after any exit of a swap the three globals are the handles
\* that were current at that swap's most recent enter; and the handles the
\* process started with are recovered after all exits only if the exits
\* occurred in the reverse of the order of entry, on distinct instances.
C19_OriginalsOnlyIfLifo ==
    /\ last.op = "exit" => sys = last.before
    /\ (last.op = "exit" /\ stack = <<>> /\ sys = Orig) =>
           usage \in {"flat", "nested"}

\* C19, amended: after any exit of a swap the three globals are the handles
\* that were current at that swap's most recent enter, whatever other swaps
\* were entered or exited in between (an active swap holds one snapshot,
\* that of its most recent enter); exits in the reverse of the order of
\* entry on distinct instances recover the handles the process started
\* with.
C19_SnapshotOfLastEnter ==
    /\ last.op = "exit" => sys = last.before
    /\ \A i \in Swaps : depth[i] > 0 => prior[i] = before[i]
    /\ (usage \in {"flat", "nested"} /\ stack = <<>>) => sys = Orig

\* A swap was entered again while it was active and everything has exited:
\* the last exit restored the snapshot of the second enter, the swap's own
\* members, which stay installed.
C19_Witness ==
    /\ last.op = "exit"
    /\ stack = <<>>
    /\ usage = "broken"
    /\ last.before = Members(last.swap)
    /\ sys = Members(last.swap)

(***************************************************************************)
(* Properties of the tee stream (checked under SpecTee).                   *)
(***************************************************************************)

\* C12: inside a managed scope, after any sequence of writes to the managed
\* stdout and reads of the managed stdin, the content of stdout is the
\* in-order concatenation of everything written to it and of the data every
\* read returned (trailing newline included); a read returns exactly what
\* the underlying stream returns and advances the position as a read that
\* is not teed would; input() returns the line without its newline.
C12_TeeOnRead ==
    inst.open =>
        /\ inst.stdout.buf = out.written
        /\ out.fn \in Reads =>
              LET u == Primary_read(Stream(inst.stdin.buf, out.pos), out.fn)
              IN  /\ out.ret = u.data
                  /\ inst.stdin.pos = u.stream.pos
                  /\ inst.stdin.pos = out.pos + Len(out.ret)
        /\ out.fn = "input" =>
              LET u == StringIO_readline(Stream(inst.stdin.buf, out.pos))
              IN  /\ out.ret = Strip(u.data)
                  /\ inst.stdin.pos = u.stream.pos

\* Text was written to stdout, and then a line ending in a newline was read
\* with input(): stdout holds the text followed by the whole line.
C12_Witness ==
    /\ inst.open
    /\ out.fn = "input"
    /\ out.exc = "none"
    /\ Len(out.written) > Len(out.reads)
    /\ Len(out.ret) + 1 = Len(out.reads)
    /\ inst.stdout.buf = out.written

\* C13: append(content) adds content at the end of the input buffer and
\* leaves the read position where it was; so whatever the interleaving of
\* appends and reads, the data read so far is the part of the buffer before
\* the position (each read starts where the previous one stopped and
\* nothing is read twice) and the buffer is the preloaded text followed by
\* the appended contents in the order of the appends.
C13_AppendPreservesPosition ==
    inst.open =>
        /\ out.fn = "append" => inst.stdin.pos = out.pos
        /\ inst.stdin.buf = out.given
        /\ inst.stdin.pos <= Len(inst.stdin.buf)
        /\ out.reads = SubSeq(inst.stdin.buf, 1, inst.stdin.pos)

\* Content was appended after a read had consumed part of the buffer, and a
\* later read returned appended content from where the earlier read stopped.
C13_Witness ==
    /\ inst.open
    /\ out.fn \in Reads
    /\ out.pos > 0
    /\ out.ret # <<>>
    /\ Len(out.given) > Len(items)
    /\ inst.stdin.pos > Len(items)
    /\ out.reads = SubSeq(out.given, 1, inst.stdin.pos)

====
